---- MODULE Spec2Model ----
(***************************************************************************)
(* A model of backend/gtfs_parser.py: the GTFS table parser, the route     *)
(* reconstruction (_build_routes), the route-type normaliser and the two   *)
(* cache tiers of load_from_url / load_from_file.                          *)
(*                                                                         *)
(* Text fields of a CSV row are strings.  Python's None (the value         *)
(* csv.DictReader gives a field that a short row does not reach) is the    *)
(* reserved string None below.  A row is a function from the column names  *)
(* it carries to their text; a column the header lacks is not in its       *)
(* DOMAIN.                                                                 *)
(***************************************************************************)
EXTENDS Integers, Sequences, FiniteSets, TLC

VARIABLES
    sess,     \* the GtfsParser object: its seven attributes
    zipf,     \* the archive file at the cache path (path of load_from_file)
    parsedf,  \* the derived cache file, path.with_suffix(".parsed")
    dirOk,    \* whether CACHE_DIR.mkdir(exist_ok=True) succeeds
    clock,    \* time.time(), in days
    call,     \* record of the last invocation: arguments, what it did, result
    input,    \* the archive bytes handed to _parse_zip (parser specification)
    origin    \* history: the archive bytes parsed by the invocation that wrote
              \* the derived cache file ("" when the program did not write it)

vars == <<sess, zipf, parsedf, dirOk, clock, call, input, origin>>

-----------------------------------------------------------------------------
(* Python values *)

None == "<None>"

\* a falsy value of `if route_id:` / `a or b`: None or the empty string
Falsy(v) == v = None \/ v = ""

EmptyDict == [k \in {} |-> k]

DictPut(d, k, v) == [x \in DOMAIN d \cup {k} |-> IF x = k THEN v ELSE d[x]]

\* dict.get(k, default)
DictGet(d, k, default) == IF k \in DOMAIN d THEN d[k] ELSE default

\* The numeric texts the inputs use, and the integer each denotes.
Numerals == {"-1", "0", "1", "2", "3", "5", "8", "700", "1500"}

NumeralValue(s) ==
    CASE s = "-1" -> -1
      [] s = "0" -> 0
      [] s = "1" -> 1
      [] s = "2" -> 2
      [] s = "3" -> 3
      [] s = "5" -> 5
      [] s = "8" -> 8
      [] s = "700" -> 700
      [] s = "1500" -> 1500

\* int(v): TypeError on None, ValueError on a non-numeric text
PyInt(v) ==
    IF v = None THEN [exc |-> "TypeError", val |-> 0]
    ELSE IF v \in Numerals THEN [exc |-> "none", val |-> NumeralValue(v)]
    ELSE [exc |-> "ValueError", val |-> 0]

\* float(v): same failure modes as int(v) on these texts
PyFloat(v) ==
    IF v = None THEN [exc |-> "TypeError", val |-> 0]
    ELSE IF v \in Numerals THEN [exc |-> "none", val |-> NumeralValue(v)]
    ELSE [exc |-> "ValueError", val |-> 0]

\* the first exception of a left-to-right evaluation
FirstExc(excs) ==
    IF \E i \in 1..Len(excs) : excs[i] # "none"
    THEN excs[CHOOSE i \in 1..Len(excs) :
                  excs[i] # "none" /\ \A j \in 1..(i - 1) : excs[j] = "none"]
    ELSE "none"

\* row[k]: KeyError when the column is absent
KeyExc(row, k) == IF k \in DOMAIN row THEN "none" ELSE "KeyError"

-----------------------------------------------------------------------------
(* normalize_route_type *)

normalize_route_type(route_type) ==
    CASE route_type \in {100, 101, 102, 103, 106, 109} -> 2
      [] route_type \in {400, 401} -> 1
      [] route_type \in {700, 702, 704} -> 3
      [] route_type = 900 -> 0
      [] route_type = 1000 -> 4
      [] OTHER -> IF route_type <= 7 THEN route_type ELSE 3

-----------------------------------------------------------------------------
(* The session object *)

NewSession ==
    [stops |-> EmptyDict,
     routes |-> <<>>,
     route_info |-> EmptyDict,
     trip_to_route |-> EmptyDict,
     trip_to_shape |-> EmptyDict,
     trip_stops |-> <<>>,      \* insertion-ordered: <<[k |-> trip_id, v |-> list]>>
     shapes |-> EmptyDict]

Stop(id, name, lat, lng) == [id |-> id, name |-> name, lat |-> lat, lng |-> lng]

Route(id, name, route_type, stop_ids, shape_coords) ==
    [id |-> id, name |-> name, route_type |-> route_type,
     stop_ids |-> stop_ids, shape_coords |-> shape_coords]

\* result of a parsing step: the session as mutated so far, and the
\* exception that left the step ("none" when it ran to its end)
Res(s, exc) == [s |-> s, exc |-> exc]

-----------------------------------------------------------------------------
(* _parse_stops *)

StopRowExc(row) ==
    FirstExc(<<KeyExc(row, "stop_id"),
               KeyExc(row, "stop_lat"),
               IF "stop_lat" \in DOMAIN row THEN PyFloat(row["stop_lat"]).exc ELSE "none",
               KeyExc(row, "stop_lon"),
               IF "stop_lon" \in DOMAIN row THEN PyFloat(row["stop_lon"]).exc ELSE "none">>)

StopOfRow(row) ==
    Stop(row["stop_id"], DictGet(row, "stop_name", ""),
         PyFloat(row["stop_lat"]).val, PyFloat(row["stop_lon"]).val)

\* which exceptions of a row the handler's except clause swallows
Caught(exc) == exc \in {"KeyError", "ValueError"}

RECURSIVE ParseStopsFrom(_, _, _)
ParseStopsFrom(s, rows, i) ==
    IF i > Len(rows) THEN Res(s, "none")
    ELSE LET exc == StopRowExc(rows[i]) IN
         IF exc = "none"
         THEN ParseStopsFrom(
                  [s EXCEPT !.stops = DictPut(@, rows[i]["stop_id"], StopOfRow(rows[i]))],
                  rows, i + 1)
         ELSE IF Caught(exc) THEN ParseStopsFrom(s, rows, i + 1)
         ELSE Res(s, exc)

_parse_stops(s, rows) == ParseStopsFrom(s, rows, 1)

-----------------------------------------------------------------------------
(* _parse_routes *)

\* row.get("route_short_name") or row.get("route_long_name", "")
RouteNameOfRow(row) ==
    LET short == DictGet(row, "route_short_name", None) IN
    IF Falsy(short) THEN DictGet(row, "route_long_name", "") ELSE short

\* int(row.get("route_type", 3))
RouteTypeOfRow(row) ==
    IF "route_type" \in DOMAIN row THEN PyInt(row["route_type"])
    ELSE [exc |-> "none", val |-> 3]

RouteRowExc(row) == FirstExc(<<KeyExc(row, "route_id"), RouteTypeOfRow(row).exc>>)

RECURSIVE ParseRoutesFrom(_, _, _)
ParseRoutesFrom(s, rows, i) ==
    IF i > Len(rows) THEN Res(s, "none")
    ELSE LET exc == RouteRowExc(rows[i]) IN
         IF exc = "none"
         THEN ParseRoutesFrom(
                  [s EXCEPT !.route_info =
                       DictPut(@, rows[i]["route_id"],
                               <<RouteNameOfRow(rows[i]), RouteTypeOfRow(rows[i]).val>>)],
                  rows, i + 1)
         ELSE IF Caught(exc) THEN ParseRoutesFrom(s, rows, i + 1)
         ELSE Res(s, exc)

_parse_routes(s, rows) == ParseRoutesFrom(s, rows, 1)

-----------------------------------------------------------------------------
(* _parse_trips *)

TripRowExc(row) == FirstExc(<<KeyExc(row, "trip_id"), KeyExc(row, "route_id")>>)

RECURSIVE ParseTripsFrom(_, _, _)
ParseTripsFrom(s, rows, i) ==
    IF i > Len(rows) THEN Res(s, "none")
    ELSE LET row == rows[i] IN
         IF TripRowExc(row) = "none"
         THEN ParseTripsFrom(
                  [s EXCEPT
                     !.trip_to_route = DictPut(@, row["trip_id"], row["route_id"]),
                     !.trip_to_shape =
                         IF "shape_id" \in DOMAIN row /\ ~Falsy(row["shape_id"])
                         THEN DictPut(@, row["trip_id"], row["shape_id"])
                         ELSE @],
                  rows, i + 1)
         ELSE ParseTripsFrom(s, rows, i + 1)

_parse_trips(s, rows) == ParseTripsFrom(s, rows, 1)

-----------------------------------------------------------------------------
(* sorting *)

\* Python's order on the stop-id strings the inputs use (str.__lt__)
StringOrder == <<"s1", "s2", "s3">>

StrRank(s) == CHOOSE i \in 1..Len(StringOrder) : StringOrder[i] = s

\* tuple comparison (seq, stop_id) <= (seq, stop_id)
PairLeq(a, b) == a[1] < b[1] \/ (a[1] = b[1] /\ StrRank(a[2]) <= StrRank(b[2]))

\* comparison of the sort key x[0] alone
KeyLeq(a, b) == a[1] <= b[1]

\* e put after the first n elements of sorted
InsertAt(sorted, n, e) ==
    SubSeq(sorted, 1, n) \o <<e>> \o SubSeq(sorted, n + 1, Len(sorted))

\* Sorting inserts each element after every element that is <= it, which
\* makes the sort stable.
RECURSIVE SortedPairsFrom(_, _, _)
SortedPairsFrom(xs, i, acc) ==
    IF i > Len(xs) THEN acc
    ELSE SortedPairsFrom(xs, i + 1,
             InsertAt(acc, Cardinality({j \in 1..Len(acc) : PairLeq(acc[j], xs[i])}),
                      xs[i]))

RECURSIVE SortedByKeyFrom(_, _, _)
SortedByKeyFrom(xs, i, acc) ==
    IF i > Len(xs) THEN acc
    ELSE SortedByKeyFrom(xs, i + 1,
             InsertAt(acc, Cardinality({j \in 1..Len(acc) : KeyLeq(acc[j], xs[i])}),
                      xs[i]))

\* sorted(stops): by the whole tuple
SortedPairs(xs) == SortedPairsFrom(xs, 1, <<>>)

\* sorted(points, key=lambda x: x[0]): by sequence number, stable
SortedByKey(xs) == SortedByKeyFrom(xs, 1, <<>>)

-----------------------------------------------------------------------------
(* _parse_shapes *)

ShapeRowExc(row) ==
    FirstExc(<<KeyExc(row, "shape_id"),
               KeyExc(row, "shape_pt_sequence"),
               IF "shape_pt_sequence" \in DOMAIN row
               THEN PyInt(row["shape_pt_sequence"]).exc ELSE "none",
               KeyExc(row, "shape_pt_lat"),
               IF "shape_pt_lat" \in DOMAIN row
               THEN PyFloat(row["shape_pt_lat"]).exc ELSE "none",
               KeyExc(row, "shape_pt_lon"),
               IF "shape_pt_lon" \in DOMAIN row
               THEN PyFloat(row["shape_pt_lon"]).exc ELSE "none">>)

\* the loop over the rows: shape_points, or the exception that left it
RECURSIVE ShapePointsFrom(_, _, _)
ShapePointsFrom(points, rows, i) ==
    IF i > Len(rows) THEN [points |-> points, exc |-> "none"]
    ELSE LET row == rows[i]
             exc == ShapeRowExc(row) IN
         IF exc = "none"
         THEN ShapePointsFrom(
                  DictPut(points, row["shape_id"],
                          Append(DictGet(points, row["shape_id"], <<>>),
                                 <<PyInt(row["shape_pt_sequence"]).val,
                                   PyFloat(row["shape_pt_lat"]).val,
                                   PyFloat(row["shape_pt_lon"]).val>>)),
                  rows, i + 1)
         ELSE IF Caught(exc) THEN ShapePointsFrom(points, rows, i + 1)
         ELSE [points |-> points, exc |-> exc]

\* [(lat, lng) for _, lat, lng in sorted_points]
Coords(sorted_points) ==
    [i \in 1..Len(sorted_points) |-> <<sorted_points[i][2], sorted_points[i][3]>>]

_parse_shapes(s, rows) ==
    LET r == ShapePointsFrom(EmptyDict, rows, 1) IN
    IF r.exc # "none" THEN Res(s, r.exc)
    ELSE Res([s EXCEPT !.shapes =
                  [k \in DOMAIN @ \cup DOMAIN r.points |->
                      IF k \in DOMAIN r.points
                      THEN Coords(SortedByKey(r.points[k]))
                      ELSE @[k]]],
             "none")

-----------------------------------------------------------------------------
(* _parse_stop_times *)

\* position of key k in an insertion-ordered dict, 0 when absent
OrdIndex(d, k) ==
    IF \E i \in 1..Len(d) : d[i].k = k
    THEN CHOOSE i \in 1..Len(d) : d[i].k = k
    ELSE 0

\* defaultdict(list)[k].append(x): a new key goes last
OrdAppend(d, k, x) ==
    LET i == OrdIndex(d, k) IN
    IF i = 0 THEN Append(d, [k |-> k, v |-> <<x>>])
    ELSE [d EXCEPT ![i].v = Append(@, x)]

\* "skip" is the `continue` of a trip that trips.txt did not name
StopTimeRowExc(row, known_trips) ==
    IF "trip_id" \notin DOMAIN row THEN "KeyError"
    ELSE IF row["trip_id"] \notin known_trips THEN "skip"
    ELSE FirstExc(<<KeyExc(row, "stop_id"),
                    KeyExc(row, "stop_sequence"),
                    IF "stop_sequence" \in DOMAIN row
                    THEN PyInt(row["stop_sequence"]).exc ELSE "none">>)

RECURSIVE ParseStopTimesFrom(_, _, _, _)
ParseStopTimesFrom(s, known_trips, rows, i) ==
    IF i > Len(rows) THEN Res(s, "none")
    ELSE LET row == rows[i]
             exc == StopTimeRowExc(row, known_trips) IN
         IF exc = "none"
         THEN ParseStopTimesFrom(
                  [s EXCEPT !.trip_stops =
                       OrdAppend(@, row["trip_id"],
                                 <<PyInt(row["stop_sequence"]).val, row["stop_id"]>>)],
                  known_trips, rows, i + 1)
         ELSE IF Caught(exc) \/ exc = "skip"
         THEN ParseStopTimesFrom(s, known_trips, rows, i + 1)
         ELSE Res(s, exc)

_parse_stop_times(s, rows) == ParseStopTimesFrom(s, DOMAIN s.trip_to_route, rows, 1)

-----------------------------------------------------------------------------
(* _build_routes *)

\* route_trips: insertion-ordered route_id -> [(sorted stop ids, shape_id)]
RECURSIVE RouteTripsFrom(_, _, _)
RouteTripsFrom(s, i, route_trips) ==
    IF i > Len(s.trip_stops) THEN route_trips
    ELSE LET trip_id == s.trip_stops[i].k
             stops == s.trip_stops[i].v
             route_id == DictGet(s.trip_to_route, trip_id, None)
             sorted == SortedPairs(stops)
             sorted_stops == [j \in 1..Len(sorted) |-> sorted[j][2]]
             shape_id == DictGet(s.trip_to_shape, trip_id, "") IN
         RouteTripsFrom(s, i + 1,
             IF Falsy(route_id) THEN route_trips
             ELSE OrdAppend(route_trips, route_id,
                            [stop_ids |-> sorted_stops, shape_id |-> shape_id]))

\* max(trip_data, key=lambda x: len(x[0])) with the last of the longest kept
RECURSIVE LastLongestFrom(_, _, _)
LastLongestFrom(trip_data, i, best) ==
    IF i > Len(trip_data) THEN best
    ELSE LastLongestFrom(trip_data, i + 1,
             IF Len(trip_data[i].stop_ids) >= Len(best.stop_ids)
             THEN trip_data[i] ELSE best)

\* max(trip_data, key=lambda x: len(x[0])): the first of the longest
RECURSIVE LongestFrom(_, _, _)
LongestFrom(trip_data, i, best) ==
    IF i > Len(trip_data) THEN best
    ELSE LongestFrom(trip_data, i + 1,
             IF Len(trip_data[i].stop_ids) > Len(best.stop_ids)
             THEN trip_data[i] ELSE best)

BestTripLast(trip_data) == LastLongestFrom(trip_data, 2, trip_data[1])

BestTrip(trip_data) == LongestFrom(trip_data, 2, trip_data[1])

\* [s for s in stop_ids if s in self.stops]
KnownStops(stop_ids, stops) == SelectSeq(stop_ids, LAMBDA x : x \in DOMAIN stops)

\* `if len(stop_ids) < 2: continue`, off by one
TooShortOffByOne(stop_ids) == Len(stop_ids) < 1

\* `if len(stop_ids) < 2: continue`
TooShort(stop_ids) == Len(stop_ids) < 2

RECURSIVE BuildFrom(_, _, _, _)
BuildFrom(s, route_trips, i, routes) ==
    IF i > Len(route_trips) THEN routes
    ELSE LET route_id == route_trips[i].k
             best_trip == BestTrip(route_trips[i].v)
             stop_ids == KnownStops(best_trip.stop_ids, s.stops)
             shape_coords == DictGet(s.shapes, best_trip.shape_id, <<>>)
             info == DictGet(s.route_info, route_id, <<"Unknown", 3>>) IN
         BuildFrom(s, route_trips, i + 1,
             IF TooShort(stop_ids) THEN routes
             ELSE Append(routes,
                         Route(route_id, info[1], normalize_route_type(info[2]),
                               stop_ids, shape_coords)))

_build_routes(s) ==
    [s EXCEPT !.routes = BuildFrom(s, RouteTripsFrom(s, 1, <<>>), 1, s.routes)]

-----------------------------------------------------------------------------
(* _parse_zip *)

\* An archive: ok = the bytes open as a ZIP; bad = the member whose open
\* raises BadZipFile ("" for none); a table not in namelist() is not present.
Table(rows) == [present |-> TRUE, rows |-> rows]

NoTable == [present |-> FALSE, rows |-> <<>>]

\* `if "<name>.txt" in file_list:` is reached and true, r being the outcome
\* of the steps before it
Reached(r, a, name) == r.exc = "none" /\ a[name].present

\* the five steps `if "<name>.txt" in file_list: self._parse_<name>(zf)`;
\* zf.open of the member `bad` raises BadZipFile
StopsStep(r, a) ==
    IF ~Reached(r, a, "stops") THEN r
    ELSE IF a.bad = "stops" THEN Res(r.s, "BadZipFile")
    ELSE _parse_stops(r.s, a.stops.rows)

RoutesStep(r, a) ==
    IF ~Reached(r, a, "routes") THEN r
    ELSE IF a.bad = "routes" THEN Res(r.s, "BadZipFile")
    ELSE _parse_routes(r.s, a.routes.rows)

TripsStep(r, a) ==
    IF ~Reached(r, a, "trips") THEN r
    ELSE IF a.bad = "trips" THEN Res(r.s, "BadZipFile")
    ELSE _parse_trips(r.s, a.trips.rows)

ShapesStep(r, a) ==
    IF ~Reached(r, a, "shapes") THEN r
    ELSE IF a.bad = "shapes" THEN Res(r.s, "BadZipFile")
    ELSE _parse_shapes(r.s, a.shapes.rows)

StopTimesStep(r, a) ==
    IF ~Reached(r, a, "stop_times") THEN r
    ELSE IF a.bad = "stop_times" THEN Res(r.s, "BadZipFile")
    ELSE _parse_stop_times(r.s, a.stop_times.rows)

\* the body of `with zipfile.ZipFile(zip_data) as zf:` up to _build_routes
ParseTables(s, a) ==
    StopTimesStep(
        ShapesStep(TripsStep(RoutesStep(StopsStep(Res(s, "none"), a), a), a), a), a)

\* the end of _parse_zip, r being the outcome of the tables: build the
\* routes and return True, or `except zipfile.BadZipFile: return False`, or
\* any other exception propagating.  ret is "True", "False", or the name of
\* the exception.
AfterTables(r) ==
    IF r.exc = "none" THEN [s |-> _build_routes(r.s), ret |-> "True"]
    ELSE IF r.exc = "BadZipFile" THEN [s |-> r.s, ret |-> "False"]
    ELSE [s |-> r.s, ret |-> r.exc]

_parse_zip(s, a) ==
    IF ~a.ok THEN [s |-> s, ret |-> "False"]
    ELSE AfterTables(ParseTables(s, a))

-----------------------------------------------------------------------------
(* Input rows and archives *)

StopRow(id, lat) == [stop_id |-> id, stop_name |-> "N", stop_lat |-> lat, stop_lon |-> "2"]

RouteRow(id, type) ==
    [route_id |-> id, route_short_name |-> "A", route_long_name |-> "L", route_type |-> type]

TripRow(trip, route, shape) == [trip_id |-> trip, route_id |-> route, shape_id |-> shape]

ShapeRow(shape, seq, c) ==
    [shape_id |-> shape, shape_pt_sequence |-> seq, shape_pt_lat |-> c, shape_pt_lon |-> c]

StopTimeRow(trip, stop, seq) == [trip_id |-> trip, stop_id |-> stop, stop_sequence |-> seq]

BaseStops == <<StopRow("s1", "1"), StopRow("s2", "1"), StopRow("s3", "1")>>

BaseRoutes == <<RouteRow("r1", "3")>>

BaseTrips == <<TripRow("t1", "r1", "h1"), TripRow("t2", "r1", ""), TripRow("t3", "r2", "")>>

BaseShapes == <<ShapeRow("h1", "2", "2"), ShapeRow("h1", "1", "1")>>

BaseStopTimes ==
    <<StopTimeRow("t1", "s2", "2"), StopTimeRow("t1", "s1", "1"),
      StopTimeRow("t2", "s3", "3"), StopTimeRow("t2", "s2", "2"), StopTimeRow("t2", "s1", "1"),
      StopTimeRow("t3", "s2", "1"), StopTimeRow("t3", "s3", "2")>>

BaseArchive ==
    [ok |-> TRUE, bad |-> "",
     stops |-> Table(BaseStops), routes |-> Table(BaseRoutes), trips |-> Table(BaseTrips),
     shapes |-> Table(BaseShapes), stop_times |-> Table(BaseStopTimes)]

\* two small feeds, of different agencies
FeedA ==
    [ok |-> TRUE, bad |-> "",
     stops |-> Table(<<StopRow("s1", "1"), StopRow("s2", "1")>>),
     routes |-> Table(<<RouteRow("r1", "3")>>),
     trips |-> Table(<<TripRow("t1", "r1", "h1")>>),
     shapes |-> Table(<<ShapeRow("h1", "1", "1")>>),
     stop_times |-> Table(<<StopTimeRow("t1", "s1", "1"), StopTimeRow("t1", "s2", "2")>>)]

FeedB ==
    [ok |-> TRUE, bad |-> "",
     stops |-> Table(<<StopRow("s2", "5"), StopRow("s3", "5")>>),
     routes |-> Table(<<RouteRow("r2", "700")>>),
     trips |-> Table(<<TripRow("t2", "r2", "")>>),
     shapes |-> NoTable,
     stop_times |-> Table(<<StopTimeRow("t2", "s3", "1"), StopTimeRow("t2", "s2", "2")>>)]

\* The bytes a file or a download can hold, by name: two feeds, and the
\* first feed damaged so that its routes.txt member raises BadZipFile when
\* opened.
ValidFeeds == {"A", "B"}

FeedNames == ValidFeeds \cup {"badmember"}

Feed(d) ==
    CASE d = "A" -> FeedA
      [] d = "B" -> FeedB
      [] d = "badmember" -> [FeedA EXCEPT !.bad = "routes"]

-----------------------------------------------------------------------------
(* Files *)

NoFile == [exists |-> FALSE, mtime |-> 0, data |-> ""]

ZipFile(mtime, data) == [exists |-> TRUE, mtime |-> mtime, data |-> data]

\* The derived cache holds a blob: "dump" is what pickle.dump wrote
\* ({"stops": ..., "routes": ...}); "partial" unpickles to a dict with a
\* "stops" entry and no "routes" entry; "corrupt" does not unpickle.
NoParsed == [exists |-> FALSE, mtime |-> 0, blob |-> [kind |-> "corrupt"]]

Dump(stops, routes) == [kind |-> "dump", stops |-> stops, routes |-> routes]

ForeignStops == [k \in {"s9"} |-> Stop("s9", "N", 8, 8)]

PartialBlob == [kind |-> "partial", stops |-> ForeignStops]

CorruptBlob == [kind |-> "corrupt"]

ParsedFile(mtime, blob) == [exists |-> TRUE, mtime |-> mtime, blob |-> blob]

-----------------------------------------------------------------------------
(* load_from_file *)

\* `if cache_mtime > zip_mtime:` with the comparison not strict
DerivedFreshOrEqual(zf, pf) == pf.mtime >= zf.mtime

\* `if cache_mtime > zip_mtime:`
DerivedFresh(zf, pf) == pf.mtime > zf.mtime

\* the try block of lines 158-166: the session after it, and whether it returned
ReadDerived(s, blob) ==
    CASE blob.kind = "dump" ->
             [s |-> [s EXCEPT !.stops = blob.stops, !.routes = blob.routes], ok |-> TRUE]
      [] blob.kind = "partial" ->
             [s |-> [s EXCEPT !.stops = blob.stops], ok |-> FALSE]
      [] OTHER -> [s |-> s, ok |-> FALSE]

\* pickle.dump to the derived cache: wr is whether the file system lets it
WriteDerived(pf, s, now, wr) ==
    IF wr THEN ParsedFile(now, Dump(s.stops, s.routes)) ELSE pf

\* what a run of load_from_file did: tried = the derived cache passed the
\* freshness check, used = the model came from it, opened = open(path, "rb")
\* was called, parsed = _parse_zip was called
FileResult(s, pf, ret, tried, used, opened, parsed) ==
    [s |-> s, pf |-> pf, ret |-> ret, tried |-> tried, used |-> used,
     opened |-> opened, parsed |-> parsed]

\* lines 168-185 with a failed cache read ending the load
FailWithoutParse(s, zf, pf, now, rd, wr) ==
    FileResult(s, pf, "False", TRUE, FALSE, FALSE, FALSE)

\* lines 168-185: parse the ZIP file and save the processed cache.  rd is
\* whether open(path, "rb") and f.read() succeed on an existing file.
SaveParsed(r, pf, now, wr, tried) ==
    FileResult(r.s,
               IF r.ret = "True" THEN WriteDerived(pf, r.s, now, wr) ELSE pf,
               r.ret, tried, FALSE, TRUE, TRUE)

ParseAndSave(s, zf, pf, now, rd, wr, tried) ==
    IF ~zf.exists \/ ~rd
    THEN FileResult(s, pf, "False", tried, FALSE, TRUE, FALSE)
    ELSE SaveParsed(_parse_zip(s, Feed(zf.data)), pf, now, wr, tried)

\* what follows `except Exception as e: print("Cache invalid, re-parsing")`
AfterCacheReadFailure(s, zf, pf, now, rd, wr) ==
    ParseAndSave(s, zf, pf, now, rd, wr, TRUE)

\* lines 158-166 and what follows them, got being the outcome of the read
AfterReadDerived(got, zf, pf, now, rd, wr) ==
    IF got.ok THEN FileResult(got.s, pf, "True", TRUE, TRUE, FALSE, FALSE)
    ELSE AfterCacheReadFailure(got.s, zf, pf, now, rd, wr)

load_from_file(s, zf, pf, now, rd, wr) ==
    IF pf.exists /\ ~zf.exists
    THEN FileResult(s, pf, "FileNotFoundError", FALSE, FALSE, FALSE, FALSE)
    ELSE IF pf.exists /\ DerivedFresh(zf, pf)
    THEN AfterReadDerived(ReadDerived(s, pf.blob), zf, pf, now, rd, wr)
    ELSE ParseAndSave(s, zf, pf, now, rd, wr, FALSE)

-----------------------------------------------------------------------------
(* load_from_url *)

\* lines 119-122 with `cache_age_days <= cache_days`
CacheUsableInclusive(force_download, zf, now, cache_days) ==
    ~force_download /\ zf.exists /\ (now - zf.mtime) <= cache_days

\* lines 119-122: `not force_download and cache_path.exists()` and
\* `cache_age_days < cache_days`
CacheUsable(force_download, zf, now, cache_days) ==
    ~force_download /\ zf.exists /\ (now - zf.mtime) < cache_days

\* cache_path.write_bytes(resp.content) leaving the last-write time of an
\* existing entry as it was
WriteRawKeepMtime(zf, bytes, now, w) ==
    IF w THEN ZipFile(IF zf.exists THEN zf.mtime ELSE now, bytes) ELSE zf

\* cache_path.write_bytes(resp.content): w is whether the file system lets it
WriteRaw(zf, bytes, now, w) ==
    IF w THEN ZipFile(now, bytes) ELSE zf

UrlResult(s, zf, pf, ret, fetched, file) ==
    [s |-> s, zf |-> zf, pf |-> pf, ret |-> ret, fetched |-> fetched, file |-> file]

NoFileRun == [tried |-> FALSE, used |-> FALSE, opened |-> FALSE, parsed |-> FALSE]

FileRun(r) == [tried |-> r.tried, used |-> r.used, opened |-> r.opened, parsed |-> r.parsed]

\* line 124: return self.load_from_file(str(cache_path))
FromCache(r, zf) == UrlResult(r.s, zf, r.pf, r.ret, FALSE, FileRun(r))

\* line 144: return self._parse_zip(BytesIO(resp.content)), after the write
Downloaded(r, zf, pf) ==
    UrlResult(r.s, zf, pf, r.ret, TRUE, [NoFileRun EXCEPT !.parsed = TRUE])

\* lines 130-135 with the stale cache entry read after a failed download
FallBackToStale(s, zf, pf, now, rd, w) ==
    IF zf.exists
    THEN UrlResult(load_from_file(s, zf, pf, now, rd, w).s, zf,
                   load_from_file(s, zf, pf, now, rd, w).pf,
                   load_from_file(s, zf, pf, now, rd, w).ret, TRUE,
                   FileRun(load_from_file(s, zf, pf, now, rd, w)))
    ELSE UrlResult(s, zf, pf, "False", TRUE, NoFileRun)

\* lines 133-135: `except requests.RequestException: return False`
DownloadFailed(s, zf, pf, now, rd, w) ==
    UrlResult(s, zf, pf, "False", TRUE, NoFileRun)

\* net is "fail" (requests.RequestException) or the bytes of the response;
\* w is the outcome of the one cache write the call makes
load_from_url(s, zf, pf, dir, now, force_download, cache_days, net, rd, w) ==
    IF ~dir THEN UrlResult(s, zf, pf, "OSError", FALSE, NoFileRun)
    ELSE IF CacheUsable(force_download, zf, now, cache_days)
    THEN FromCache(load_from_file(s, zf, pf, now, rd, w), zf)
    ELSE IF net = "fail" THEN DownloadFailed(s, zf, pf, now, rd, w)
    ELSE Downloaded(_parse_zip(s, Feed(net)), WriteRaw(zf, net, now, w), pf)

-----------------------------------------------------------------------------
(* Bounds *)

MaxStopRows == 3
MaxRouteRows == 2
MaxTripRows == 2
MaxShapeRows == 2
MaxStopTimeRows == 4
MaxClock == 1
MaxTtl == 1
MaxRoutes == 1

-----------------------------------------------------------------------------
(* The archives the parser is run on: the base archive with one table     *)
(* replaced by every sequence of rows up to the table's bound, and the    *)
(* base archive with every choice of members present, of a member that    *)
(* does not open, and of bytes that are no ZIP.                           *)

StopRows ==
    {StopRow(id, lat) : id \in {"s1", "s2", "s3"}, lat \in {"1", "x", None}}
    \cup {[stop_name |-> "N", stop_lat |-> "1", stop_lon |-> "2"],
          [stop_id |-> "s1", stop_lat |-> "1", stop_lon |-> "2"],
          [stop_id |-> "s1", stop_name |-> "N", stop_lat |-> "1"],
          [stop_id |-> "s2", stop_name |-> "N", stop_lat |-> "1", stop_lon |-> None]}

RouteRows ==
    {RouteRow(id, type) : id \in {"r1", "r2"},
                          type \in {"3", "-1", "700", "1500", "8", "x", None}}
    \cup {[route_id |-> id, route_short_name |-> "A", route_long_name |-> "L"] :
              id \in {"r1", "r2"}}
    \cup {[route_id |-> "r1", route_short_name |-> "", route_long_name |-> "L",
           route_type |-> "1"],
          [route_id |-> "r1", route_long_name |-> "L", route_type |-> "1"],
          [route_id |-> "r1", route_short_name |-> "", route_type |-> "1"],
          [route_id |-> "r1", route_type |-> "1", route_short_name |-> None,
           route_long_name |-> None],
          [route_short_name |-> "A", route_long_name |-> "L", route_type |-> "3"]}

TripRows ==
    {TripRow(trip, route, shape) :
         trip \in {"t1", "t2"}, route \in {"r1", "r2", ""}, shape \in {"h1", ""}}
    \cup {[trip_id |-> "t1", route_id |-> "r1"],
          [trip_id |-> "t1"],
          [route_id |-> "r1"],
          TripRow("t2", None, None)}

ShapeRows ==
    {ShapeRow("h1", seq, c) : seq \in {"1", "2", "x", None}, c \in {"1", "2"}}
    \cup {[shape_id |-> "h1", shape_pt_sequence |-> "1", shape_pt_lat |-> "x",
           shape_pt_lon |-> "1"],
          [shape_id |-> "h1", shape_pt_sequence |-> "1", shape_pt_lat |-> None,
           shape_pt_lon |-> None],
          [shape_id |-> "h1", shape_pt_sequence |-> "1", shape_pt_lat |-> "1"],
          ShapeRow("h2", "1", "1")}

StopTimeRows ==
    {StopTimeRow(trip, stop, seq) :
         trip \in {"t1", "t2"}, stop \in {"s1", "s2"}, seq \in {"1", "2"}}
    \cup {StopTimeRow("t1", "s1", "x"),
          StopTimeRow("t1", "s1", None),
          StopTimeRow("t9", "s1", "1"),
          [trip_id |-> "t1", stop_sequence |-> "1"]}

TableNames == {"stops", "routes", "trips", "shapes", "stop_times"}

\* the base archive with one table replaced
WithTable(name, rows) == [BaseArchive EXCEPT ![name] = Table(rows)]

\* the base archive with the members `present`, member `bad` failing to open
WithMembers(ok, bad, present) ==
    [name \in DOMAIN BaseArchive |->
        IF name = "ok" THEN ok
        ELSE IF name = "bad" THEN bad
        ELSE IF name \in present THEN BaseArchive[name] ELSE NoTable]

IsArchive(a) ==
    \/ \E m \in 0..MaxStopRows : \E rows \in [1..m -> StopRows] :
           a = WithTable("stops", rows)
    \/ \E m \in 0..MaxRouteRows : \E rows \in [1..m -> RouteRows] :
           a = WithTable("routes", rows)
    \/ \E m \in 0..MaxTripRows : \E rows \in [1..m -> TripRows] :
           a = WithTable("trips", rows)
    \/ \E m \in 0..MaxShapeRows : \E rows \in [1..m -> ShapeRows] :
           a = WithTable("shapes", rows)
    \/ \E m \in 0..MaxStopTimeRows : \E rows \in [1..m -> StopTimeRows] :
           a = WithTable("stop_times", rows)
    \/ \E ok \in BOOLEAN, bad \in TableNames \cup {""}, present \in SUBSET TableNames :
           a = WithMembers(ok, bad, present)

-----------------------------------------------------------------------------
(* State *)

NoCall ==
    [op |-> "none", ret |-> "none", fresh |-> TRUE, force |-> FALSE, ttl |-> 0,
     now |-> 0, zip |-> NoFile, pf |-> [exists |-> FALSE, mtime |-> 0, kind |-> "corrupt"],
     readFailed |-> FALSE, fetched |-> FALSE, net |-> "",
     file |-> NoFileRun, bytes |-> ""]

Init ==
    /\ sess = NewSession
    /\ zipf = NoFile
    /\ parsedf = NoParsed
    /\ dirOk \in BOOLEAN
    /\ clock = 0
    /\ call = NoCall
    /\ input = BaseArchive
    /\ origin = ""

\* GtfsParser(): a new session object
NewParser ==
    /\ sess' = NewSession
    /\ call' = NoCall
    /\ UNCHANGED <<zipf, parsedf, dirOk, clock, input, origin>>

\* time passes
Tick ==
    /\ clock < MaxClock
    /\ clock' = clock + 1
    /\ call' = NoCall
    /\ UNCHANGED <<sess, zipf, parsedf, dirOk, input, origin>>

\* What the world does to a call.  A call to load_from_url either reads the
\* cached archive (rd: open and read succeed) or downloads (net: "fail" or
\* the bytes of the response), never both, and makes at most one cache
\* write (w: it succeeds); a read that fails is followed by no write.
UrlEnvs ==
    {[net |-> n, rd |-> TRUE, w |-> w] : n \in FeedNames, w \in BOOLEAN}
    \cup {[net |-> "fail", rd |-> TRUE, w |-> w] : w \in BOOLEAN}
    \cup {[net |-> "fail", rd |-> FALSE, w |-> FALSE]}

FileEnvs == {[rd |-> TRUE, w |-> TRUE], [rd |-> TRUE, w |-> FALSE], [rd |-> FALSE, w |-> FALSE]}

\* lines 174-177 ran and the write succeeded: load_from_file parsed the
\* archive, the result was True, and the file system let the dump happen
WroteDerived(file, ret, w) == file.parsed /\ ret = "True" /\ w

\* The invocation record: fetched = requests.get was called, and net is
\* then what it gave; bytes = the archive bytes handed to _parse_zip.
\* what the invocation record keeps of a derived cache file
Seen(pf) == [exists |-> pf.exists, mtime |-> pf.mtime, kind |-> pf.blob.kind]

\* parser.load_from_url(url, force_download, cache_days), on a session that
\* holds fewer than MaxRoutes routes
LoadFromUrl ==
    /\ Len(sess.routes) < MaxRoutes
    /\ \E force_download \in BOOLEAN, cache_days \in 1..MaxTtl, e \in UrlEnvs :
          \E r \in {load_from_url(sess, zipf, parsedf, dirOk, clock,
                                   force_download, cache_days, e.net, e.rd, e.w)} :
          /\ sess' = r.s
          /\ zipf' = r.zf
          /\ parsedf' = r.pf
          /\ origin' = IF ~r.fetched /\ WroteDerived(r.file, r.ret, e.w)
                       THEN zipf.data ELSE origin
          /\ call' = [op |-> "load_from_url", ret |-> r.ret, fresh |-> sess = NewSession,
                      force |-> force_download, ttl |-> cache_days, now |-> clock,
                      zip |-> zipf, pf |-> Seen(parsedf),
                      readFailed |-> r.file.opened /\ ~r.file.parsed,
                      fetched |-> r.fetched,
                      net |-> IF r.fetched THEN e.net ELSE "",
                      file |-> r.file,
                      bytes |-> IF r.fetched /\ r.file.parsed THEN e.net
                                ELSE IF r.file.parsed THEN zipf.data ELSE ""]
    /\ UNCHANGED <<dirOk, clock, input>>

\* parser.load_from_file(path), path being the archive's path
LoadFromFile ==
    /\ Len(sess.routes) < MaxRoutes
    /\ \E e \in FileEnvs :
          \E r \in {load_from_file(sess, zipf, parsedf, clock, e.rd, e.w)} :
          /\ sess' = r.s
          /\ parsedf' = r.pf
          /\ origin' = IF WroteDerived(FileRun(r), r.ret, e.w)
                       THEN zipf.data ELSE origin
          /\ call' = [op |-> "load_from_file", ret |-> r.ret, fresh |-> sess = NewSession,
                      force |-> FALSE, ttl |-> 0, now |-> clock,
                      zip |-> zipf, pf |-> Seen(parsedf),
                      readFailed |-> r.opened /\ ~r.parsed,
                      fetched |-> FALSE, net |-> "",
                      file |-> FileRun(r),
                      bytes |-> IF r.parsed THEN zipf.data ELSE ""]
    /\ UNCHANGED <<zipf, dirOk, clock, input>>

\* the file system outside the program: the derived cache file is damaged
\* or replaced by a blob of another shape
EnvParsed ==
    /\ dirOk
    /\ \E blob \in {CorruptBlob, PartialBlob} : parsedf' = ParsedFile(clock, blob)
    /\ origin' = ""
    /\ call' = NoCall
    /\ UNCHANGED <<sess, zipf, dirOk, clock, input>>

Next == NewParser \/ Tick \/ LoadFromUrl \/ LoadFromFile \/ EnvParsed

Spec == Init /\ [][Next]_vars

-----------------------------------------------------------------------------
(* The parser alone: _parse_zip on a new session, for every archive *)

InitParse ==
    /\ sess = NewSession
    /\ zipf = NoFile
    /\ parsedf = NoParsed
    /\ dirOk = TRUE
    /\ clock = 0
    /\ call = NoCall
    /\ IsArchive(input)
    /\ origin = ""

ParseZip ==
    /\ call.op = "none"
    /\ \E r \in {_parse_zip(sess, input)} :
          /\ sess' = r.s
          /\ call' = [NoCall EXCEPT !.op = "_parse_zip", !.ret = r.ret]
    /\ UNCHANGED <<zipf, parsedf, dirOk, clock, input, origin>>

NextParse == ParseZip

SpecParse == InitParse /\ [][NextParse]_vars

-----------------------------------------------------------------------------
(* Properties of the cache tiers (specification Spec).  They are stated on *)
(* the record `call` of the last invocation and on the session after it.   *)

IsLoad == call.op \in {"load_from_url", "load_from_file"}

\* the invocation ran the body of load_from_file: called directly, or from
\* line 124 of load_from_url
RanLoadFromFile ==
    \/ call.op = "load_from_file"
    \/ call.op = "load_from_url" /\ ~call.fetched /\ call.ret # "OSError"

\* C1: in load_from_file, a derived cache file that exists next to the
\* archive is used, and the archive is not parsed, if and only if its
\* last-write time is strictly newer than the archive's and it can be read;
\* with an equal or older last-write time the archive is re-parsed.
C1_DerivedCacheUsedIffStrictlyNewer ==
    (RanLoadFromFile /\ call.pf.exists /\ call.zip.exists) =>
        /\ call.file.used <=> (call.pf.mtime > call.zip.mtime /\ call.pf.kind = "dump")
        /\ call.file.used => (~call.file.opened /\ ~call.file.parsed /\ call.ret = "True")
        /\ call.pf.mtime <= call.zip.mtime =>
               (~call.file.tried /\ call.file.opened
                /\ (call.file.parsed \/ call.readFailed))

\* a load served from a derived cache that is strictly newer than the archive
C1_Witness ==
    /\ RanLoadFromFile
    /\ call.pf.exists /\ call.zip.exists
    /\ call.pf.mtime > call.zip.mtime
    /\ call.file.used

C7_FailedLoadExposesNoPartialModel ==
    (IsLoad /\ call.fresh /\ call.ret # "True") =>
        (sess.stops = EmptyDict /\ sess.routes = <<>>)

\* the stops and routes _parse_zip gives for the bytes d on a new session
ParsedAlone(d) == _parse_zip(NewSession, Feed(d)).s

\* C8: after any sequence of loads, the stops and routes exposed after a
\* load that parsed an archive are exactly those derived from that archive.
C8_ParseStartsFromEmptyState ==
    (IsLoad /\ call.file.parsed /\ call.ret = "True") =>
        /\ sess.stops = ParsedAlone(call.bytes).stops
        /\ sess.routes = ParsedAlone(call.bytes).routes

\* C9: when the derived cache passes the freshness check and reading it
\* fails, load_from_file re-parses the archive, and succeeds whenever the
\* archive is valid and can be read.
C9_CacheReadFailureFallsBackToParse ==
    (RanLoadFromFile /\ call.file.tried /\ ~call.file.used) =>
        /\ call.file.opened
        /\ ~call.readFailed => call.file.parsed
        /\ (call.file.parsed /\ call.zip.data \in ValidFeeds) => call.ret = "True"

\* a corrupt or partial derived cache, newer than the archive, followed by
\* a successful parse of the archive
C9_Witness ==
    /\ RanLoadFromFile
    /\ call.file.tried /\ ~call.file.used
    /\ call.pf.kind \in {"corrupt", "partial"}
    /\ call.file.parsed /\ call.ret = "True"

\* C10: cache I/O errors are never fatal: load_from_url goes past a faulty
\* cache tier and succeeds whenever the feed can be fetched and is a valid
\* archive.  What the network would answer does not depend on the state,
\* so the claim says that a load ends otherwise than in success only after
\* a fetch that failed or that delivered an invalid archive.
C10_CacheErrorsNeverFatal ==
    (call.op = "load_from_url" /\ call.ret # "True") =>
        (call.fetched /\ call.bytes \notin ValidFeeds)

\* C11: when the raw cache entry is expired, or a refresh is forced, and
\* the download fails, load_from_url reports failure: the stale entry is
\* neither read nor parsed, and the session's model is what it was before.
C11_FailedDownloadDoesNotUseStaleEntry ==
    [][(call'.op = "load_from_url" /\ call'.fetched /\ call'.net = "fail") =>
           /\ call'.ret = "False"
           /\ ~call'.file.opened /\ ~call'.file.tried
           /\ ~call'.file.used /\ ~call'.file.parsed
           /\ sess' = sess
           /\ zipf' = zipf /\ parsedf' = parsedf]_vars

\* a failed download while a valid but expired entry is in the cache
C11_Witness ==
    /\ call.op = "load_from_url" /\ call.fetched /\ call.net = "fail"
    /\ call.zip.exists /\ call.zip.data \in ValidFeeds
    /\ ~call.force /\ call.now - call.zip.mtime >= call.ttl
    /\ call.ret = "False"
    /\ sess = NewSession

\* the derived cache file would pass the freshness check and unpickle
DerivedValid ==
    /\ zipf.exists /\ parsedf.exists
    /\ parsedf.blob.kind = "dump"
    /\ parsedf.mtime > zipf.mtime

C15_NothingOfFaultyBlobRemains ==
    (RanLoadFromFile /\ call.fresh /\ call.file.tried /\ ~call.file.used
     /\ call.file.parsed /\ call.ret = "True") =>
        /\ sess.stops = ParsedAlone(call.bytes).stops
        /\ sess.routes = ParsedAlone(call.bytes).routes

-----------------------------------------------------------------------------
(* Properties of the parser (specification SpecParse): _parse_zip has run  *)
(* on a new session and `input` is the archive it was given.               *)

Parsed == call.op = "_parse_zip"

\* C3: normalize_route_type returns a value in 0..7 and is idempotent, so
\* every Route of the final routes sequence has route_type in 0..7 whatever
\* integer the routes table carried.
C3_RouteTypeIsBasic ==
    (Parsed /\ call.ret = "True") =>
        \A i \in 1..Len(sess.routes) :
            /\ sess.routes[i].route_type \in 0..7
            /\ normalize_route_type(sess.routes[i].route_type) = sess.routes[i].route_type

\* the route ids that some trip with stop times maps to (a trip whose
\* route_id is empty maps to no route)
RoutesWithTrips ==
    {sess.trip_to_route[sess.trip_stops[i].k] : i \in 1..Len(sess.trip_stops)}
        \ {"", None}

RouteIds == {sess.routes[i].id : i \in 1..Len(sess.routes)}

\* C4: every Route of the final routes sequence has at least 2 stop ids,
\* all of them ids of parsed Stops; a route left with fewer is dropped
\* without error.
C4_RoutesHaveTwoKnownStops ==
    (Parsed /\ call.ret = "True") =>
        \A i \in 1..Len(sess.routes) :
            /\ Len(sess.routes[i].stop_ids) >= 2
            /\ \A j \in 1..Len(sess.routes[i].stop_ids) :
                   sess.routes[i].stop_ids[j] \in DOMAIN sess.stops

\* a route whose trips have stop times, with a stop the stop table lacks,
\* is dropped and the parse succeeds
C4_Witness ==
    /\ Parsed /\ call.ret = "True"
    /\ \E r \in RoutesWithTrips \ RouteIds :
           \E i \in 1..Len(sess.trip_stops) :
               /\ sess.trip_to_route[sess.trip_stops[i].k] = r
               /\ \E j \in 1..Len(sess.trip_stops[i].v) :
                      sess.trip_stops[i].v[j][2] \notin DOMAIN sess.stops

\* the rows of stop_times.txt that _parse_stop_times keeps
KeptStopTimes ==
    {n \in 1..Len(input.stop_times.rows) :
        LET row == input.stop_times.rows[n] IN
        /\ {"trip_id", "stop_id", "stop_sequence"} \subseteq DOMAIN row
        /\ row["trip_id"] \in DOMAIN sess.trip_to_route
        /\ row["stop_sequence"] \in Numerals}

\* the first kept row of a trip: its place in input-file order
FirstRow(t) ==
    CHOOSE n \in KeptStopTimes :
        /\ input.stop_times.rows[n]["trip_id"] = t
        /\ \A m \in KeptStopTimes :
               input.stop_times.rows[m]["trip_id"] = t => n <= m

\* the number of stop-time entries of a trip
Entries(t) ==
    Cardinality({n \in KeptStopTimes : input.stop_times.rows[n]["trip_id"] = t})

\* the trips with stop times that map to route r
TripsOf(r) ==
    {t \in DOMAIN sess.trip_to_route :
        sess.trip_to_route[t] = r /\ Entries(t) > 0}

\* the trip of route r with the most entries, the first in file order among
\* those that tie
Representative(r) ==
    CHOOSE t \in TripsOf(r) :
        \A u \in TripsOf(r) :
            \/ Entries(u) < Entries(t)
            \/ Entries(u) = Entries(t) /\ FirstRow(t) <= FirstRow(u)

\* the stop ids of trip t in order of (stop_sequence, stop_id), restricted
\* to the parsed stops
StopIdsOf(t) ==
    LET sorted == SortedPairs(sess.trip_stops[OrdIndex(sess.trip_stops, t)].v) IN
    SelectSeq([j \in 1..Len(sorted) |-> sorted[j][2]],
              LAMBDA x : x \in DOMAIN sess.stops)

ShapeOf(t) == DictGet(sess.shapes, DictGet(sess.trip_to_shape, t, ""), <<>>)

\* C5: the representative trip of a route, which gives the route its stop
\* ids and its shape, is the trip with the most stop-time entries among the
\* trips mapped to the route; among several with the most, it is the first
\* in insertion order of the trips, which is input-file order.
C5_RepresentativeIsFirstLongestTrip ==
    (Parsed /\ call.ret = "True" /\ input.stop_times.present) =>
        /\ \A i \in 1..Len(sess.routes) :
               /\ sess.routes[i].stop_ids = StopIdsOf(Representative(sess.routes[i].id))
               /\ sess.routes[i].shape_coords = ShapeOf(Representative(sess.routes[i].id))
        /\ \A r \in RoutesWithTrips :
               r \in RouteIds <=> Len(StopIdsOf(Representative(r))) >= 2

\* two trips of one route tie for the most entries, differ in their stops,
\* and the route is emitted
C5_Witness ==
    /\ Parsed /\ call.ret = "True" /\ input.stop_times.present
    /\ \E r \in RouteIds : \E t, u \in TripsOf(r) :
           /\ t # u
           /\ Entries(t) = Entries(u)
           /\ \A w \in TripsOf(r) : Entries(w) <= Entries(t)
           /\ StopIdsOf(t) # StopIdsOf(u)

\* C6: no malformed row is fatal: for an archive that opens as a ZIP and
\* whose members open, whatever rows its tables hold (a required column
\* missing, a field the row does not reach, a non-numeric text in a numeric
\* field), the load completes successfully.
C6_MalformedRowsAreSkipped ==
    (Parsed /\ input.ok /\ input.bad = "") => call.ret = "True"

\* the last row of routes.txt that carries the route_id of row n
IsLastRowOfItsRoute(n) ==
    /\ "route_id" \in DOMAIN input.routes.rows[n]
    /\ \A m \in (n + 1)..Len(input.routes.rows) :
           "route_id" \in DOMAIN input.routes.rows[m] =>
               input.routes.rows[m]["route_id"] # input.routes.rows[n]["route_id"]

\* route_short_name if non-empty, else route_long_name, else ""
NameOfRouteRow(row) ==
    IF "route_short_name" \in DOMAIN row /\ row["route_short_name"] \notin {"", None}
    THEN row["route_short_name"]
    ELSE IF "route_long_name" \in DOMAIN row THEN row["route_long_name"] ELSE ""

\* the value of route_type, 3 when the field is absent or not a number
RawTypeOfRouteRow(row) ==
    IF "route_type" \in DOMAIN row /\ row["route_type"] \in Numerals
    THEN NumeralValue(row["route_type"])
    ELSE 3

\* C12: every row of the routes table that has a route_id is recorded as
\* (name, rawType): rawType is 3 when route_type is absent or non-numeric,
\* the row being kept with its name, and name is route_short_name if
\* non-empty, else route_long_name, else the empty string.
C12_RouteInfoDefaultsToBus ==
    (Parsed /\ call.ret = "True" /\ input.routes.present) =>
        \A n \in 1..Len(input.routes.rows) :
            IsLastRowOfItsRoute(n) =>
                /\ input.routes.rows[n]["route_id"] \in DOMAIN sess.route_info
                /\ sess.route_info[input.routes.rows[n]["route_id"]] =
                       <<NameOfRouteRow(input.routes.rows[n]),
                         RawTypeOfRouteRow(input.routes.rows[n])>>

\* C13: the stop_ids of every emitted Route hold no stop id twice, also
\* when the representative trip visits a stop at several sequence numbers.
C13_StopIdsAreDuplicatesFree ==
    (Parsed /\ call.ret = "True") =>
        \A i \in 1..Len(sess.routes) :
            \A j, k \in 1..Len(sess.routes[i].stop_ids) :
                j # k => sess.routes[i].stop_ids[j] # sess.routes[i].stop_ids[k]

====
